---- MODULE Spec2Model ----
(***************************************************************************)
(* Process supervision and PID reference counting of the memory server     *)
(* launcher: src/src/launcher/index.ts (the PIDListManager based main,     *)
(* lines 213-331), src/src/launcher/server.ts (startProcess), the          *)
(* PIDListManager class (src/unnamed/part_012, lines 1-105) and the        *)
(* backend's bind (src/unnamed/part_017).                                  *)
(*                                                                         *)
(* Every launcher, backend and worker is an OS process; processes          *)
(* interleave at the granularity of their file-system and process          *)
(* operations, so one action is one such operation together with the       *)
(* synchronous code that follows it in the same continuation.              *)
(***************************************************************************)
EXTENDS Integers, Sequences, FiniteSets, TLC

\* Number of launcher processes; launcher l has process id l.
NumLaunchers == 2

\* retryLink({ retry: ({ attempts }) => attempts <= 3 })
RetryLimit == 3

\* Longest PID list a registry file is seeded with in the harness.
MaxSeedLen == 2

\* Most signals a launcher receives after its worker was told to stop.
MaxLateSignals == 1

\* waitForDbServer(client, maxAttempts: number = 10, interval = 500)
MaxAttempts == 10

Launchers == 1..NumLaunchers

\* Content kinds of the registry file .mcp_servers.json.  "enoent" is a
\* file that existsSync reports and readFile then fails to find; "ioerror"
\* is a file whose readFile fails otherwise (EACCES, EISDIR, EIO).
FileKinds == {"absent", "blank", "enoent", "ioerror", "corrupt", "legacy", "object"}

VARIABLES
    pc,             \* position of each launcher process
    locPids,        \* the list returned by the launcher's last read()
    dbProcess,      \* startDBServer's result: 0 is null, else the backend handle
    backend,        \* state of the backend process spawned by each launcher
    worker,         \* state of each launcher's worker (client) process
    sockFile,       \* endpoint file: 0 is absent, b is the file bound by backend b
    pidFile,        \* registry file: [kind, pids]
    attempts,       \* retries made by retryLink in the launch's latest health query
    confirmed,      \* a health query of this launch answered "ok"
    exhausted,      \* waitUp of this launch ended without a healthy answer
    startedHealthy, \* startup only: a listener was answering when the launcher started
    schedule,       \* how the launchers are run: "concurrent" or "sequential"
    errPc,          \* position of the launcher's child "error" handler
    errPids,        \* the list read by the removePid the "error" handler runs
    teardowns,      \* how many times the worker's "exit" handler was started
    lateSignals,    \* signals received after the worker was told to stop
    entities,       \* table entities: rows [name, entityType]
    observations,   \* table observations: rows [entityName, content]
    relations,      \* table relations: rows [from_entity, to_entity, relationType]
    call,           \* the manager method being called and its argument
    returned        \* how the call's promise settled, and its value

\* State of the "error" handler and of the signal and exit bookkeeping.
faultVars == <<errPc, errPids, teardowns, lateSignals>>

\* The database of the knowledge graph manager and the call made to it.
graphVars == <<entities, observations, relations, call, returned>>

vars == <<pc, locPids, dbProcess, backend, worker, sockFile, pidFile,
          attempts, confirmed, exhausted, startedHealthy, schedule, faultVars,
          graphVars>>

launcherVars == <<dbProcess, backend, worker, attempts, confirmed,
                  exhausted, startedHealthy, schedule, faultVars,
                  graphVars>>

----------------------------------------------------------------------------
\* Helpers on sequences

Includes(s, x) == \E i \in 1..Len(s) : s[i] = x

Range(s) == {s[i] : i \in 1..Len(s)}

Count(s, x) == Cardinality({i \in 1..Len(s) : s[i] = x})

\* Sequences over S of length at most n without repeated elements.
DistinctSeqs(S, n) ==
    UNION {{s \in [1..k -> S] : \A i, j \in 1..k : i # j => s[i] # s[j]} : k \in 0..n}

----------------------------------------------------------------------------
\* Processes

\* Launcher positions in which the launcher's process no longer exists
\* (or does not exist yet): process.kill(pid, 0) throws ESRCH for them.
DeadPcs == {"idle", "done", "failed", "crashed"}

LivePids == {l \in Launchers : pc[l] \notin DeadPcs}

BackendAlive(b) == backend[b] \in {"starting", "listening"}

----------------------------------------------------------------------------
\* PIDListManager (src/unnamed/part_012, lines 15-100)

\* Faulty read: blank text is handed to JSON.parse, which throws.
readParsesBlank(file) ==
    CASE file.kind = "absent"  -> [ok |-> TRUE,  pids |-> <<>>]
      [] file.kind = "blank"   -> [ok |-> FALSE, pids |-> <<>>]
      [] file.kind = "enoent"  -> [ok |-> TRUE,  pids |-> <<>>]
      [] file.kind = "ioerror" -> [ok |-> FALSE, pids |-> <<>>]
      [] file.kind = "corrupt" -> [ok |-> FALSE, pids |-> <<>>]
      [] file.kind = "legacy"  -> [ok |-> FALSE, pids |-> <<>>]
      [] file.kind = "object"  -> [ok |-> TRUE,  pids |-> file.pids]

\* read(): a missing or blank file is the empty list, and so is a readFile
\* rejected with an ENOENT message; any other rejection of readFile is
\* rethrown by the catch, and JSON.parse of corrupt text throws
\* SyntaxError and fileSchema.parse of a bare array throws ZodError:
\* neither message includes "ENOENT", so both are rethrown.
read(file) ==
    CASE file.kind = "absent"  -> [ok |-> TRUE,  pids |-> <<>>]
      [] file.kind = "blank"   -> [ok |-> TRUE,  pids |-> <<>>]
      [] file.kind = "enoent"  -> [ok |-> TRUE,  pids |-> <<>>]
      [] file.kind = "ioerror" -> [ok |-> FALSE, pids |-> <<>>]
      [] file.kind = "corrupt" -> [ok |-> FALSE, pids |-> <<>>]
      [] file.kind = "legacy"  -> [ok |-> FALSE, pids |-> <<>>]
      [] file.kind = "object"  -> [ok |-> TRUE,  pids |-> file.pids]

\* write(pids): JSON.stringify({ pids })
write(pids) == [kind |-> "object", pids |-> pids]

\* Faulty isPidActive: every id is reported alive.
isPidActiveAlways(thisArg, pid) == TRUE

\* isPidActive(pid), called with the given `this'.  The body is
\*   try { this.pidManager.kill(pid, 0); return true } catch { return false }
\* so with this === undefined the property access throws TypeError inside
\* the try and the method answers false whatever the process does.
isPidActive(thisArg, pid) ==
    IF thisArg = "undefined" THEN FALSE ELSE pid \in LivePids

\* Faulty addPid: push and write without looking for the id.
addPidAlways(pids, pid) == [write |-> TRUE, pids |-> Append(pids, pid)]

\* Faulty addPid: the written list is built from the own id alone.
addPidForgetOthers(pids, pid) ==
    IF Includes(pids, pid)
    THEN [write |-> FALSE, pids |-> pids]
    ELSE [write |-> TRUE,  pids |-> <<pid>>]

\* addPid's decision on the list it read:
\*   if (!pids.includes(pid)) { pids.push(pid); await this.write(pids) }
addPidList(pids, pid) ==
    IF Includes(pids, pid)
    THEN [write |-> FALSE, pids |-> pids]
    ELSE [write |-> TRUE,  pids |-> Append(pids, pid)]

\* Faulty removePid: the list it read is written back as it is.
activePidsUnfiltered(pids, self) == pids

\* removePid's list: .filter((pid) => pid !== self).filter(this.isPidActive).
\* Array.prototype.filter is given no thisArg and class bodies are strict
\* code, so the unbound method runs with this === undefined.
activePids(pids, self) ==
    SelectSeq(SelectSeq(pids, LAMBDA p : p # self),
              LAMBDA p : isPidActive("undefined", p))

----------------------------------------------------------------------------
\* Health probe (src/src/launcher/index.ts, lines 223-245) and the
\* backend's healthcheck procedure (src/src/db-server/handlers.ts, line 6)

\* A request sent to the endpoint reaches a listener iff the endpoint file
\* is the one a backend bound and that backend is still listening.  The
\* transport (the tRPC link and the HTTP client under it) is taken to carry
\* a request to whatever listens on the endpoint file.
ListenerAnswering == sockFile # 0 /\ backend[sockFile] = "listening"

\* What one healthcheck request comes back with: the procedure's "ok"; a
\* connection error (no file, or a file nobody listens on); and, from a
\* listener that is not this backend, bytes that are no tRPC response
\* ("malformed") or a well-formed result other than "ok" ("ng").
healthcheckResponse ==
    CASE sockFile = 0                   -> "error"
      [] backend[sockFile] = "listening" -> "ok"
      [] backend[sockFile] = "garbled"   -> "malformed"
      [] backend[sockFile] = "deviant"   -> "ng"
      [] OTHER                           -> "error"

\* The query promise rejects on a connection error and on a response that
\* cannot be decoded; retryLink retries rejected requests only.
Rejected(r) == r \in {"error", "malformed"}

\* Faulty checkDBServerHealth: a comparison that no response satisfies.
checkNeverOk(r) == r = "OK"

\* Faulty checkDBServerHealth: every resolved query counts as healthy.
checkAnyResult(r) == ~Rejected(r)

\* checkDBServerHealth: .then((r) => r === "ok").catch(() => false)
checkDBServerHealth(r) == r = "ok"

Healthy == checkDBServerHealth(healthcheckResponse)

----------------------------------------------------------------------------
\* The database is empty and no method of the manager has been called.
NoGraph ==
    /\ entities = {}
    /\ observations = {}
    /\ relations = {}
    /\ call = [op |-> "none", arg |-> <<>>]
    /\ returned = [status |-> "idle", value |-> <<>>]

\* No "error" event is pending or handled, no exit handler has run, no
\* signal has arrived.
NoFaults ==
    /\ errPc = [l \in Launchers |-> "none"]
    /\ errPids = [l \in Launchers |-> <<>>]
    /\ teardowns = [l \in Launchers |-> 0]
    /\ lateSignals = [l \in Launchers |-> 0]

Init ==
    /\ pc = [l \in Launchers |-> "idle"]
    /\ locPids = [l \in Launchers |-> <<>>]
    /\ dbProcess = [l \in Launchers |-> 0]
    /\ backend = [l \in Launchers |-> "none"]
    /\ worker = [l \in Launchers |-> "none"]
    /\ sockFile = 0
    /\ pidFile = [kind |-> "absent", pids |-> <<>>]
    /\ attempts = [l \in Launchers |-> 0]
    /\ confirmed = [l \in Launchers |-> FALSE]
    /\ exhausted = [l \in Launchers |-> FALSE]
    /\ startedHealthy = [l \in Launchers |-> FALSE]
    /\ schedule \in {"concurrent", "sequential"}
    /\ NoFaults
    /\ NoGraph

----------------------------------------------------------------------------
\* Scheduling of the launcher processes

\* A launcher that is not started, up and running with its worker, or gone
\* (in the harness: between two calls).
Settled(m) ==
    \/ pc[m] \in {"idle", "done", "failed", "ready", "crashed"}
    \/ pc[m] = "running" /\ worker[m] = "running" /\ errPc[m] = "none"

\* Under the sequential schedule launchers are started and terminated one
\* after another: a launcher takes a step only while every other launcher
\* is settled.  Under the concurrent schedule any launcher may step.
Turn(l) ==
    schedule = "sequential" => \A m \in Launchers \ {l} : Settled(m)

----------------------------------------------------------------------------
\* Launcher main (src/src/launcher/index.ts, lines 293-331)

\* Faulty main: startDBServer is called before addPid.
StartUnregistered(l) ==
    /\ pc[l] = "idle"
    /\ Turn(l)
    /\ pc' = [pc EXCEPT ![l] = "checkSock"]
    /\ startedHealthy' = [startedHealthy EXCEPT ![l] = ListenerAnswering]
    /\ UNCHANGED <<locPids, dbProcess, backend, worker, sockFile, pidFile,
                   attempts, confirmed, exhausted, schedule, faultVars,
                   graphVars>>

\* The launcher process starts; mkdirSync(defaultAppDir) has no effect on
\* the modelled files.
Start(l) ==
    /\ pc[l] = "idle"
    /\ Turn(l)
    /\ pc' = [pc EXCEPT ![l] = "addRead"]
    /\ startedHealthy' = [startedHealthy EXCEPT ![l] = ListenerAnswering]
    /\ UNCHANGED <<locPids, dbProcess, backend, worker, sockFile, pidFile,
                   attempts, confirmed, exhausted, schedule, faultVars,
                   graphVars>>

\* addPid, first half: const pids = await this.read().  A rejected read
\* leaves the try block for the catch, which calls removePid.
AddRead(l, onThrow) ==
    /\ pc[l] = "addRead"
    /\ Turn(l)
    /\ LET r == read(pidFile) IN
         IF r.ok
         THEN /\ locPids' = [locPids EXCEPT ![l] = r.pids]
              /\ pc' = [pc EXCEPT ![l] = "addWrite"]
         ELSE /\ pc' = [pc EXCEPT ![l] = onThrow]
              /\ UNCHANGED locPids
    /\ UNCHANGED <<sockFile, pidFile>>
    /\ UNCHANGED launcherVars

\* addPid, second half: the includes test, the push and the write.
AddWrite(l, next) ==
    /\ pc[l] = "addWrite"
    /\ Turn(l)
    /\ LET r == addPidList(locPids[l], l) IN
         /\ pidFile' = IF r.write THEN write(r.pids) ELSE pidFile
         /\ locPids' = [locPids EXCEPT ![l] = <<>>]
    /\ pc' = [pc EXCEPT ![l] = next]
    /\ UNCHANGED sockFile
    /\ UNCHANGED launcherVars

\* Faulty startDBServer: an existing endpoint file is taken for a live
\* backend.
CheckSockTrustsFile(l) ==
    /\ pc[l] = "checkSock"
    /\ Turn(l)
    /\ pc' = [pc EXCEPT ![l] = IF sockFile = 0 THEN "startFresh" ELSE "spawnWorker"]
    /\ attempts' = [attempts EXCEPT ![l] = 0]
    /\ UNCHANGED <<locPids, dbProcess, backend, worker, sockFile, pidFile, confirmed, exhausted, startedHealthy, schedule, faultVars,
            graphVars>>

\* startDBServer: if (!existsSync(socketFilePath)) return start();
\* otherwise the health query is issued.
CheckSock(l) ==
    /\ pc[l] = "checkSock"
    /\ Turn(l)
    /\ pc' = [pc EXCEPT ![l] = IF sockFile = 0 THEN "startFresh" ELSE "probe"]
    /\ attempts' = [attempts EXCEPT ![l] = 0]
    /\ UNCHANGED <<locPids, dbProcess, backend, worker, sockFile, pidFile, confirmed, exhausted, startedHealthy, schedule, faultVars,
            graphVars>>

\* checkDBServerHealth() against the existing endpoint: one request per
\* step, a rejected one retried by retryLink while attempts <= 3.  Healthy: return null.
\* Unhealthy after the last retry: const server = await start().
Probe(l) ==
    /\ pc[l] = "probe"
    /\ Turn(l)
    /\ IF Healthy
       THEN /\ confirmed' = [confirmed EXCEPT ![l] = TRUE]
            /\ pc' = [pc EXCEPT ![l] = "spawnWorker"]
            /\ UNCHANGED attempts
       ELSE /\ UNCHANGED confirmed
            /\ IF attempts[l] < RetryLimit /\ Rejected(healthcheckResponse)
               THEN /\ attempts' = [attempts EXCEPT ![l] = @ + 1]
                    /\ UNCHANGED pc
               ELSE /\ pc' = [pc EXCEPT ![l] = "startStale"]
                    /\ UNCHANGED attempts
    /\ UNCHANGED <<locPids, dbProcess, backend, worker, sockFile, pidFile,
                   exhausted, startedHealthy, schedule, faultVars, graphVars>>

\* Faulty start(): no beforeSpawn, the endpoint file is left as it is.
StartDbKeepsFile(l) ==
    /\ pc[l] \in {"startFresh", "startStale"}
    /\ Turn(l)
    /\ backend' = [backend EXCEPT ![l] = "starting"]
    /\ dbProcess' = [dbProcess EXCEPT ![l] = l]
    /\ pc' = [pc EXCEPT ![l] = IF pc[l] = "startFresh" THEN "spawnWorker" ELSE "waitUp"]
    /\ attempts' = [attempts EXCEPT ![l] = 0]
    /\ UNCHANGED <<locPids, worker, sockFile, pidFile, confirmed, exhausted, startedHealthy, schedule, faultVars,
            graphVars>>

\* start(): startProcess runs beforeSpawn (deleteSocketFile) and spawns the
\* backend.  On the no-endpoint path startDBServer returns the handle at
\* once; on the stale path it goes on to server.waitUp().
StartDb(l) ==
    /\ pc[l] \in {"startFresh", "startStale"}
    /\ Turn(l)
    /\ sockFile' = 0
    /\ backend' = [backend EXCEPT ![l] = "starting"]
    /\ dbProcess' = [dbProcess EXCEPT ![l] = l]
    /\ pc' = [pc EXCEPT ![l] = IF pc[l] = "startFresh" THEN "spawnWorker" ELSE "waitUp"]
    /\ attempts' = [attempts EXCEPT ![l] = 0]
    /\ UNCHANGED <<locPids, worker, pidFile, confirmed, exhausted, startedHealthy, schedule, faultVars,
            graphVars>>

\* Faulty waitUp: a backend that does not answer is started once more.
WaitUpRespawns(l) ==
    /\ pc[l] = "waitUp"
    /\ Turn(l)
    /\ IF Healthy
       THEN /\ confirmed' = [confirmed EXCEPT ![l] = TRUE]
            /\ pc' = [pc EXCEPT ![l] = "spawnWorker"]
            /\ UNCHANGED <<attempts, backend, exhausted>>
       ELSE /\ UNCHANGED confirmed
            /\ IF attempts[l] < RetryLimit /\ Rejected(healthcheckResponse)
               THEN /\ attempts' = [attempts EXCEPT ![l] = @ + 1]
                    /\ UNCHANGED <<pc, backend, exhausted>>
               ELSE /\ exhausted' = [exhausted EXCEPT ![l] = TRUE]
                    /\ UNCHANGED attempts
                    /\ backend' = [backend EXCEPT ![l] = "starting"]
                    /\ pc' = [pc EXCEPT ![l] = "spawnWorker"]
    /\ UNCHANGED <<locPids, dbProcess, worker, sockFile, pidFile, startedHealthy, schedule, faultVars,
            graphVars>>

\* waitUp(): one checkDBServerHealth() (with retryLink's retries); if it
\* is not healthy, kill() the backend.  waitUp returns normally either way
\* and startDBServer returns the server handle.
WaitUp(l) ==
    /\ pc[l] = "waitUp"
    /\ Turn(l)
    /\ IF Healthy
       THEN /\ confirmed' = [confirmed EXCEPT ![l] = TRUE]
            /\ pc' = [pc EXCEPT ![l] = "spawnWorker"]
            /\ UNCHANGED <<attempts, backend, exhausted>>
       ELSE /\ UNCHANGED confirmed
            /\ IF attempts[l] < RetryLimit /\ Rejected(healthcheckResponse)
               THEN /\ attempts' = [attempts EXCEPT ![l] = @ + 1]
                    /\ UNCHANGED <<pc, backend, exhausted>>
               ELSE /\ exhausted' = [exhausted EXCEPT ![l] = TRUE]
                    /\ UNCHANGED attempts
                    /\ backend' = [backend EXCEPT ![l] =
                                     IF BackendAlive(l) THEN "exited" ELSE @]
                    /\ pc' = [pc EXCEPT ![l] = "spawnWorker"]
    /\ UNCHANGED <<locPids, dbProcess, worker, sockFile, pidFile, startedHealthy, schedule, faultVars,
            graphVars>>

\* Faulty main: only a launcher that holds a backend starts a worker.
SpawnWorkerIfOwner(l) ==
    /\ pc[l] = "spawnWorker"
    /\ Turn(l)
    /\ worker' = [worker EXCEPT ![l] = IF dbProcess[l] # 0 THEN "running" ELSE @]
    /\ pc' = [pc EXCEPT ![l] = "running"]
    /\ attempts' = [attempts EXCEPT ![l] = 0]
    /\ startedHealthy' = [startedHealthy EXCEPT ![l] = FALSE]
    /\ UNCHANGED <<locPids, dbProcess, backend, sockFile, pidFile, confirmed,
                   exhausted, schedule, faultVars, graphVars>>

\* const mcpProcess = await startProcess({ path: "../client/index.mjs" }),
\* then the exit handler and the SIGINT/SIGTERM handlers are registered.
SpawnWorker(l) ==
    /\ pc[l] = "spawnWorker"
    /\ Turn(l)
    /\ worker' = [worker EXCEPT ![l] = "running"]
    /\ pc' = [pc EXCEPT ![l] = "running"]
    /\ attempts' = [attempts EXCEPT ![l] = 0]
    /\ startedHealthy' = [startedHealthy EXCEPT ![l] = FALSE]
    /\ UNCHANGED <<locPids, dbProcess, backend, sockFile, pidFile, confirmed,
                   exhausted, schedule, faultVars, graphVars>>

\* SIGINT or SIGTERM: cleanup() is mcpProcess.kill().
Signal(l) ==
    /\ pc[l] = "running"
    /\ Turn(l)
    /\ worker[l] = "running"
    /\ worker' = [worker EXCEPT ![l] = "signalled"]
    /\ UNCHANGED <<pc, locPids, dbProcess, backend, sockFile, pidFile, attempts, confirmed, exhausted, startedHealthy, schedule, faultVars,
            graphVars>>

\* The worker exits, by itself or on cleanup's signal; its "exit" event
\* starts the handler, whose first statement is pidListManager.removePid().
WorkerExit(l) ==
    /\ pc[l] = "running"
    /\ Turn(l)
    /\ worker[l] \in {"running", "signalled"}
    /\ worker' = [worker EXCEPT ![l] = "exited"]
    /\ pc' = [pc EXCEPT ![l] = "rmRead"]
    /\ teardowns' = [teardowns EXCEPT ![l] = @ + 1]
    /\ UNCHANGED <<locPids, dbProcess, backend, sockFile, pidFile, attempts,
                   confirmed, exhausted, startedHealthy, schedule,
                   errPc, errPids, lateSignals, graphVars>>

\* removePid, the read.  A rejected read rejects removePid.
RmRead(l, onThrow) ==
    /\ pc[l] = "rmRead"
    /\ Turn(l)
    /\ LET r == read(pidFile) IN
         IF r.ok
         THEN /\ locPids' = [locPids EXCEPT ![l] = r.pids]
              /\ pc' = [pc EXCEPT ![l] = "rmFilter"]
         ELSE /\ pc' = [pc EXCEPT ![l] = onThrow]
              /\ UNCHANGED locPids
    /\ UNCHANGED <<sockFile, pidFile>>
    /\ UNCHANGED launcherVars

\* removePid, the two filters and
\*   if (activePids.length === 0) this.onNoActivePids()
\* where onNoActivePids is deleteSocketFile.
RmFilter(l) ==
    /\ pc[l] = "rmFilter"
    /\ Turn(l)
    /\ LET act == activePids(locPids[l], l) IN
         /\ locPids' = [locPids EXCEPT ![l] = act]
         /\ sockFile' = IF Len(act) = 0 THEN 0 ELSE sockFile
    /\ pc' = [pc EXCEPT ![l] = "rmWrite"]
    /\ UNCHANGED pidFile
    /\ UNCHANGED launcherVars

\* removePid, await this.write(activePids).
RmWrite(l, next) ==
    /\ pc[l] = "rmWrite"
    /\ Turn(l)
    /\ pidFile' = write(locPids[l])
    /\ locPids' = [locPids EXCEPT ![l] = <<>>]
    /\ pc' = [pc EXCEPT ![l] = next]
    /\ UNCHANGED sockFile
    /\ UNCHANGED launcherVars

\* Faulty exit handler: it ends after removePid, the backend is left.
KillDbSkipped(l) ==
    /\ pc[l] = "killDb"
    /\ Turn(l)
    /\ pc' = [pc EXCEPT ![l] = IF errPc[l] = "none" THEN "done" ELSE "drained"]
    /\ dbProcess' = [dbProcess EXCEPT ![l] = 0]
    /\ attempts' = [attempts EXCEPT ![l] = 0]
    /\ confirmed' = [confirmed EXCEPT ![l] = FALSE]
    /\ exhausted' = [exhausted EXCEPT ![l] = FALSE]
    /\ startedHealthy' = [startedHealthy EXCEPT ![l] = FALSE]
    /\ UNCHANGED <<locPids, backend, worker, sockFile, pidFile, schedule, faultVars,
            graphVars>>

\* Faulty exit handler: it kills the backend serving the endpoint, whoever
\* spawned it.
KillDbAtEndpoint(l) ==
    /\ pc[l] = "killDb"
    /\ Turn(l)
    /\ backend' = IF sockFile # 0 /\ BackendAlive(sockFile)
                  THEN [backend EXCEPT ![sockFile] = "exited"]
                  ELSE IF dbProcess[l] # 0 /\ BackendAlive(dbProcess[l])
                       THEN [backend EXCEPT ![dbProcess[l]] = "exited"]
                       ELSE backend
    /\ pc' = [pc EXCEPT ![l] = IF errPc[l] = "none" THEN "done" ELSE "drained"]
    /\ dbProcess' = [dbProcess EXCEPT ![l] = 0]
    /\ attempts' = [attempts EXCEPT ![l] = 0]
    /\ confirmed' = [confirmed EXCEPT ![l] = FALSE]
    /\ exhausted' = [exhausted EXCEPT ![l] = FALSE]
    /\ startedHealthy' = [startedHealthy EXCEPT ![l] = FALSE]
    /\ UNCHANGED <<locPids, worker, sockFile, pidFile, schedule, faultVars, graphVars>>

\* The exit handler's second statement, await dbProcess?.kill(); the
\* launcher's event loop is then empty and the process exits with code 0,
\* which ends the life of its local state.  While a child's "error"
\* handler is pending or at work the loop is not empty: the process lives
\* on ("drained") until that handler calls process.exit(1).
KillDb(l) ==
    /\ pc[l] = "killDb"
    /\ Turn(l)
    /\ backend' = IF dbProcess[l] # 0 /\ BackendAlive(dbProcess[l])
                  THEN [backend EXCEPT ![dbProcess[l]] = "exited"]
                  ELSE backend
    /\ pc' = [pc EXCEPT ![l] = IF errPc[l] = "none" THEN "done" ELSE "drained"]
    /\ dbProcess' = [dbProcess EXCEPT ![l] = 0]
    /\ attempts' = [attempts EXCEPT ![l] = 0]
    /\ confirmed' = [confirmed EXCEPT ![l] = FALSE]
    /\ exhausted' = [exhausted EXCEPT ![l] = FALSE]
    /\ startedHealthy' = [startedHealthy EXCEPT ![l] = FALSE]
    /\ UNCHANGED <<locPids, worker, sockFile, pidFile, schedule, faultVars, graphVars>>

----------------------------------------------------------------------------
\* Backend process (src/unnamed/part_017, lines 19-29)

\* server.listen({ path: socketFilePath }) creates the endpoint file; when
\* a file is already there listen fails with EADDRINUSE and the catch
\* calls process.exit(1).
BackendListen(b) ==
    /\ backend[b] = "starting"
    /\ IF sockFile = 0
       THEN /\ sockFile' = b
            /\ backend' = [backend EXCEPT ![b] = "listening"]
       ELSE /\ backend' = [backend EXCEPT ![b] = "exited"]
            /\ UNCHANGED sockFile
    /\ UNCHANGED <<pc, locPids, dbProcess, worker, pidFile, attempts, confirmed, exhausted, startedHealthy, schedule, faultVars,
            graphVars>>

----------------------------------------------------------------------------
\* Launchers running concurrently

\* One step of launcher l.  A read that throws inside the try block leads
\* to the catch (removePid); a removePid that rejects ends the process on
\* the unhandled rejection.  After removePid the exit handler goes on to
\* kill the backend; the catch block has nothing more to do.
LauncherStep(l) ==
    \/ Start(l)
    \/ AddRead(l, "rmRead")
    \/ AddWrite(l, "checkSock")
    \/ CheckSock(l)
    \/ Probe(l)
    \/ StartDb(l)
    \/ WaitUp(l)
    \/ SpawnWorker(l)
    \/ Signal(l)
    \/ WorkerExit(l)
    \/ RmRead(l, "failed")
    \/ RmFilter(l)
    \/ RmWrite(l, IF worker[l] = "exited" THEN "killDb" ELSE "done")
    \/ KillDb(l)

Next ==
    \/ \E l \in Launchers : LauncherStep(l)
    \/ \E b \in Launchers : BackendListen(b)

Spec == Init /\ [][Next]_vars

TypeOK ==
    /\ sockFile \in 0..NumLaunchers
    /\ pidFile.kind \in FileKinds
    /\ \A l \in Launchers :
          attempts[l] \in 0..(IF pc[l] \in {"probe", "waitUp"}
                              THEN RetryLimit ELSE MaxAttempts)
    /\ schedule \in {"concurrent", "sequential"}
    /\ \A l \in Launchers :
          /\ errPc[l] \in {"none", "pending", "rmFilter", "rmWrite"}
          /\ teardowns[l] \in 0..1
          /\ lateSignals[l] \in 0..MaxLateSignals

----------------------------------------------------------------------------
\* Launchers started and terminated one after another

InitSeq == Init /\ schedule = "sequential"

SpecSeq == InitSeq /\ [][Next]_vars

\* The steps launcher l takes by itself once started: the continuations
\* of its awaited calls and the handler of its worker's exit.  A worker
\* that was sent SIGTERM exits; one that was not may run forever.
Progress(l) ==
    \/ AddRead(l, "rmRead")
    \/ AddWrite(l, "checkSock")
    \/ CheckSock(l)
    \/ Probe(l)
    \/ StartDb(l)
    \/ WaitUp(l)
    \/ SpawnWorker(l)
    \/ worker[l] = "signalled" /\ WorkerExit(l)
    \/ RmRead(l, "failed")
    \/ RmFilter(l)
    \/ RmWrite(l, IF worker[l] = "exited" THEN "killDb" ELSE "done")
    \/ KillDb(l)

\* Every launcher, worker and backend is a process of its own that the
\* operating system keeps scheduling.
SpecSeqFair ==
    /\ SpecSeq
    /\ \A l \in Launchers : WF_vars(Progress(l)) /\ WF_vars(BackendListen(l))

----------------------------------------------------------------------------
\* Spawn failures and repeated signals (src/src/launcher/server.ts, lines
\* 14-31; src/src/launcher/index.ts, lines 305-327).  A child that cannot
\* be started makes spawn() return a handle that emits "error" on a later
\* tick and never emits "exit"; startProcess has returned the handle by
\* then and the launcher main goes on while the handler is pending.  One
\* spawn at most fails in a launch.

\* start() whose spawn of the backend fails.
StartDbFails(l) ==
    /\ pc[l] \in {"startFresh", "startStale"}
    /\ Turn(l)
    /\ errPc[l] = "none"
    /\ sockFile' = 0
    /\ backend' = [backend EXCEPT ![l] = "spawnError"]
    /\ dbProcess' = [dbProcess EXCEPT ![l] = l]
    /\ pc' = [pc EXCEPT ![l] = IF pc[l] = "startFresh" THEN "spawnWorker" ELSE "waitUp"]
    /\ attempts' = [attempts EXCEPT ![l] = 0]
    /\ errPc' = [errPc EXCEPT ![l] = "pending"]
    /\ UNCHANGED <<locPids, worker, pidFile, confirmed, exhausted,
                   startedHealthy, schedule, errPids, teardowns, lateSignals,
                   graphVars>>

\* startProcess({ path: "../client/index.mjs" }) whose spawn fails; the
\* exit and signal handlers are registered on the handle all the same.
SpawnWorkerFails(l) ==
    /\ pc[l] = "spawnWorker"
    /\ Turn(l)
    /\ errPc[l] = "none"
    /\ worker' = [worker EXCEPT ![l] = "spawnError"]
    /\ pc' = [pc EXCEPT ![l] = "running"]
    /\ attempts' = [attempts EXCEPT ![l] = 0]
    /\ startedHealthy' = [startedHealthy EXCEPT ![l] = FALSE]
    /\ errPc' = [errPc EXCEPT ![l] = "pending"]
    /\ UNCHANGED <<locPids, dbProcess, backend, sockFile, pidFile, confirmed,
                   exhausted, schedule, errPids, teardowns, lateSignals,
                   graphVars>>

\* process.exit(1), or the end of the process on an unhandled rejection:
\* the launcher is gone with its local state; its children are not.
ExitProcess(l) ==
    /\ pc' = [pc EXCEPT ![l] = "failed"]
    /\ errPc' = [errPc EXCEPT ![l] = "none"]
    /\ errPids' = [errPids EXCEPT ![l] = <<>>]
    /\ locPids' = [locPids EXCEPT ![l] = <<>>]
    /\ dbProcess' = [dbProcess EXCEPT ![l] = 0]
    /\ attempts' = [attempts EXCEPT ![l] = 0]
    /\ confirmed' = [confirmed EXCEPT ![l] = FALSE]
    /\ exhausted' = [exhausted EXCEPT ![l] = FALSE]
    /\ startedHealthy' = [startedHealthy EXCEPT ![l] = FALSE]
    /\ UNCHANGED <<backend, worker, schedule, teardowns, lateSignals, graphVars>>

\* serverProcess.on("error", ...): await props.onError?.(err), that is
\* pidListManager.removePid(); this step is its read.  A rejected read
\* rejects the handler, and the unhandled rejection ends the process.
ErrRead(l) ==
    /\ errPc[l] = "pending"
    /\ pc[l] \notin DeadPcs
    /\ Turn(l)
    /\ LET r == read(pidFile) IN
         IF r.ok
         THEN /\ errPids' = [errPids EXCEPT ![l] = r.pids]
              /\ errPc' = [errPc EXCEPT ![l] = "rmFilter"]
              /\ UNCHANGED <<pc, locPids, dbProcess, backend, worker, attempts,
                             confirmed, exhausted, startedHealthy, schedule,
                             teardowns, lateSignals, graphVars>>
         ELSE ExitProcess(l)
    /\ UNCHANGED <<sockFile, pidFile>>

\* The handler's removePid: the two filters and onNoActivePids.
ErrFilter(l) ==
    /\ errPc[l] = "rmFilter"
    /\ Turn(l)
    /\ LET act == activePids(errPids[l], l) IN
         /\ errPids' = [errPids EXCEPT ![l] = act]
         /\ sockFile' = IF Len(act) = 0 THEN 0 ELSE sockFile
    /\ errPc' = [errPc EXCEPT ![l] = "rmWrite"]
    /\ UNCHANGED <<pc, locPids, dbProcess, backend, worker, pidFile, attempts,
                   confirmed, exhausted, startedHealthy, schedule,
                   teardowns, lateSignals, graphVars>>

\* Faulty handler: process.exit(1) without waiting for onError's write.
ErrExitUnwritten(l) ==
    /\ errPc[l] = "rmWrite"
    /\ Turn(l)
    /\ ExitProcess(l)
    /\ UNCHANGED <<sockFile, pidFile>>

\* The handler's removePid: await this.write(activePids); then
\* process.exit(1).
ErrWrite(l) ==
    /\ errPc[l] = "rmWrite"
    /\ Turn(l)
    /\ pidFile' = write(errPids[l])
    /\ ExitProcess(l)
    /\ UNCHANGED sockFile

\* Faulty signal handler: a signal that finds the worker gone runs the
\* teardown itself.
SignalAgainTearsDown(l) ==
    /\ pc[l] \in {"running", "rmRead", "rmFilter", "rmWrite", "killDb", "drained"}
    /\ Turn(l)
    /\ worker[l] \in {"signalled", "exited", "spawnError"}
    /\ lateSignals[l] < MaxLateSignals
    /\ lateSignals' = [lateSignals EXCEPT ![l] = @ + 1]
    /\ pc' = [pc EXCEPT ![l] = IF worker[l] = "exited" THEN "rmRead" ELSE @]
    /\ teardowns' = [teardowns EXCEPT ![l] = IF worker[l] = "exited" THEN 2 ELSE @]
    /\ UNCHANGED <<locPids, dbProcess, backend, worker, sockFile, pidFile,
                   attempts, confirmed, exhausted, startedHealthy, schedule,
                   errPc, errPids, graphVars>>

\* SIGINT or SIGTERM once more: cleanup() is mcpProcess.kill() again, on a
\* worker that was already signalled, has exited, or was never started;
\* kill() then does nothing and does not throw.
SignalAgain(l) ==
    /\ pc[l] \in {"running", "rmRead", "rmFilter", "rmWrite", "killDb", "drained"}
    /\ Turn(l)
    /\ worker[l] \in {"signalled", "exited", "spawnError"}
    /\ lateSignals[l] < MaxLateSignals
    /\ lateSignals' = [lateSignals EXCEPT ![l] = @ + 1]
    /\ UNCHANGED <<pc, locPids, dbProcess, backend, worker, sockFile, pidFile,
                   attempts, confirmed, exhausted, startedHealthy, schedule,
                   errPc, errPids, teardowns, graphVars>>

\* The backend process dies by itself (a crash, a kill from outside);
\* the endpoint file it bound stays behind.
BackendCrash(b) ==
    /\ backend[b] = "listening"
    /\ backend' = [backend EXCEPT ![b] = "exited"]
    /\ UNCHANGED <<pc, locPids, dbProcess, worker, sockFile, pidFile, attempts,
                   confirmed, exhausted, startedHealthy, schedule, faultVars,
                   graphVars>>

FaultStep(l) ==
    \/ StartDbFails(l)
    \/ SpawnWorkerFails(l)
    \/ ErrRead(l)
    \/ ErrFilter(l)
    \/ ErrWrite(l)
    \/ SignalAgain(l)

NextFail ==
    \/ Next
    \/ \E l \in Launchers : FaultStep(l)
    \/ \E b \in Launchers : BackendCrash(b)

\* Launchers run one after another, with spawn failures, repeated
\* signals and backend crashes.
SpecFail == InitSeq /\ [][NextFail]_vars

----------------------------------------------------------------------------
\* Signals during startup (src/src/launcher/index.ts, lines 293-327)

\* Positions of main between the start of the process and the two
\* process.on calls that end the try block.
StartingUp == {"addRead", "addWrite", "checkSock", "probe", "startFresh",
               "startStale", "waitUp", "spawnWorker"}

\* SIGINT or SIGTERM while main is still awaiting addPid, startDBServer
\* or startProcess: process.on("SIGINT" / "SIGTERM", cleanup) has not run
\* yet, no listener is installed and the signal's default action ends the
\* process at once.  No handler, no catch block runs; the registry file
\* and a backend that was already spawned are left as they are.
SignalEarly(l) ==
    /\ pc[l] \in StartingUp
    /\ Turn(l)
    /\ pc' = [pc EXCEPT ![l] = "crashed"]
    /\ errPc' = [errPc EXCEPT ![l] = "none"]
    /\ errPids' = [errPids EXCEPT ![l] = <<>>]
    /\ locPids' = [locPids EXCEPT ![l] = <<>>]
    /\ dbProcess' = [dbProcess EXCEPT ![l] = 0]
    /\ attempts' = [attempts EXCEPT ![l] = 0]
    /\ confirmed' = [confirmed EXCEPT ![l] = FALSE]
    /\ exhausted' = [exhausted EXCEPT ![l] = FALSE]
    /\ startedHealthy' = [startedHealthy EXCEPT ![l] = FALSE]
    /\ UNCHANGED <<backend, worker, sockFile, pidFile, schedule, teardowns,
                   lateSignals, graphVars>>

NextSig ==
    \/ NextFail
    \/ \E l \in Launchers : SignalEarly(l)

\* Launchers run one after another, with spawn failures, backend crashes
\* and signals that may arrive at any time.
SpecSig == InitSeq /\ [][NextSig]_vars

----------------------------------------------------------------------------
\* PIDListManager driven directly, one awaited call at a time, on a seeded
\* registry file, as the unit tests drive it (src/src/launcher.ts, lines
\* 249-433).  Process l is alive ("ready") or gone ("crashed").

SeedFiles ==
    {[kind |-> k, pids |-> <<>>] : k \in {"absent", "blank", "enoent", "ioerror", "corrupt"}}
    \cup {[kind |-> k, pids |-> s] :
             k \in {"object", "legacy"}, s \in DistinctSeqs(Launchers, MaxSeedLen)}

InitPid ==
    /\ pc \in [Launchers -> {"ready", "crashed"}]
    /\ pidFile \in SeedFiles
    /\ sockFile \in {0, 1}
    /\ backend = [l \in Launchers |-> IF l = sockFile THEN "exited" ELSE "none"]
    /\ locPids = [l \in Launchers |-> <<>>]
    /\ dbProcess = [l \in Launchers |-> 0]
    /\ worker = [l \in Launchers |-> "none"]
    /\ attempts = [l \in Launchers |-> 0]
    /\ confirmed = [l \in Launchers |-> FALSE]
    /\ exhausted = [l \in Launchers |-> FALSE]
    /\ startedHealthy = [l \in Launchers |-> FALSE]
    /\ schedule = "sequential"
    /\ NoFaults
    /\ NoGraph

HarnessIdle == \A m \in Launchers : pc[m] \in {"ready", "crashed"}

\* await manager.addPid()
CallAdd(l) ==
    /\ HarnessIdle
    /\ pc[l] = "ready"
    /\ pc' = [pc EXCEPT ![l] = "addRead"]
    /\ UNCHANGED <<locPids, sockFile, pidFile>>
    /\ UNCHANGED launcherVars

\* await manager.removePid()
CallRemove(l) ==
    /\ HarnessIdle
    /\ pc[l] = "ready"
    /\ pc' = [pc EXCEPT ![l] = "rmRead"]
    /\ UNCHANGED <<locPids, sockFile, pidFile>>
    /\ UNCHANGED launcherVars

PidNext ==
    \E l \in Launchers :
        \/ CallAdd(l)
        \/ AddRead(l, "ready")
        \/ AddWrite(l, "ready")
        \/ CallRemove(l)
        \/ RmRead(l, "ready")
        \/ RmFilter(l)
        \/ RmWrite(l, "ready")

SpecPid == InitPid /\ [][PidNext]_vars

----------------------------------------------------------------------------
\* PIDListManager called by several live processes at once, each process
\* making its awaited calls one after another, on a registry that starts
\* absent or empty.

InitCalls ==
    /\ pc = [l \in Launchers |-> "ready"]
    /\ pidFile \in {[kind |-> "absent", pids |-> <<>>],
                     [kind |-> "blank",  pids |-> <<>>],
                     [kind |-> "object", pids |-> <<>>]}
    /\ sockFile \in {0, 1}
    /\ backend = [l \in Launchers |-> IF l = sockFile THEN "exited" ELSE "none"]
    /\ locPids = [l \in Launchers |-> <<>>]
    /\ dbProcess = [l \in Launchers |-> 0]
    /\ worker = [l \in Launchers |-> "none"]
    /\ attempts = [l \in Launchers |-> 0]
    /\ confirmed = [l \in Launchers |-> FALSE]
    /\ exhausted = [l \in Launchers |-> FALSE]
    /\ startedHealthy = [l \in Launchers |-> FALSE]
    /\ schedule = "concurrent"
    /\ NoFaults
    /\ NoGraph

\* manager.addPid() or manager.removePid() is called in process l.
CallEither(l) ==
    /\ pc[l] = "ready"
    /\ \E first \in {"addRead", "rmRead"} : pc' = [pc EXCEPT ![l] = first]
    /\ UNCHANGED <<locPids, sockFile, pidFile>>
    /\ UNCHANGED launcherVars

CallsNext ==
    \E l \in Launchers :
        \/ CallEither(l)
        \/ AddRead(l, "ready")
        \/ AddWrite(l, "ready")
        \/ RmRead(l, "ready")
        \/ RmFilter(l)
        \/ RmWrite(l, "ready")

SpecCalls == InitCalls /\ [][CallsNext]_vars

----------------------------------------------------------------------------
\* The health check driven directly against an endpoint that is absent,
\* dead, served by the backend, or served by something that is not the
\* backend, one awaited call at a time.

EndpointStubs == {"none", "exited", "listening", "garbled", "deviant"}

InitProbe ==
    /\ pc = [l \in Launchers |-> "ready"]
    /\ sockFile \in 0..NumLaunchers
    /\ backend \in [Launchers -> EndpointStubs]
    /\ \A b \in Launchers :
          IF sockFile = b
          THEN backend[b] # "none"
          ELSE backend[b] \in {"none", "exited"}
    /\ pidFile = [kind |-> "absent", pids |-> <<>>]
    /\ locPids = [l \in Launchers |-> <<>>]
    /\ dbProcess = [l \in Launchers |-> 0]
    /\ worker = [l \in Launchers |-> "none"]
    /\ attempts = [l \in Launchers |-> 0]
    /\ confirmed = [l \in Launchers |-> FALSE]
    /\ exhausted = [l \in Launchers |-> FALSE]
    /\ startedHealthy = [l \in Launchers |-> FALSE]
    /\ schedule = "sequential"
    /\ NoFaults
    /\ NoGraph

\* const isDBServerHealthy = await checkDBServerHealth()
CallCheck(l) ==
    /\ HarnessIdle
    /\ pc[l] = "ready"
    /\ pc' = [pc EXCEPT ![l] = "probe"]
    /\ attempts' = [attempts EXCEPT ![l] = 0]
    /\ confirmed' = [confirmed EXCEPT ![l] = FALSE]
    /\ UNCHANGED <<locPids, dbProcess, backend, worker, sockFile, pidFile,
                   exhausted, startedHealthy, schedule, faultVars, graphVars>>

\* The awaited promise has resolved; confirmed[l] holds its value.
CheckReturned(l) ==
    /\ pc[l] \in {"spawnWorker", "startStale"}
    /\ pc' = [pc EXCEPT ![l] = "ready"]
    /\ UNCHANGED <<locPids, dbProcess, backend, worker, sockFile, pidFile,
                   attempts, confirmed, exhausted, startedHealthy, schedule, faultVars,
                   graphVars>>

ProbeNext ==
    \E l \in Launchers :
        \/ CallCheck(l)
        \/ Probe(l)
        \/ CheckReturned(l)

SpecProbe == InitProbe /\ [][ProbeNext]_vars

----------------------------------------------------------------------------
\* The polling wait for a spawned backend, waitForDbServer (src/src/
\* launcher.ts, lines 130-146; the waitUp loop of src/src/launcher/index.ts,
\* lines 156-169, is the same loop), driven directly while the backend
\* starts, listens, or fails to bind.  attempts[l] counts the checks that
\* came back unhealthy.

\* Faulty loop test: attempt <= maxAttempts.
waitLoopOffByOne(attempt) == attempt <= MaxAttempts

\* for (let attempt = 0; attempt < maxAttempts; attempt++)
waitLoopContinues(attempt) == attempt < MaxAttempts

InitWait ==
    /\ pc = [l \in Launchers |-> "ready"]
    /\ sockFile \in 0..NumLaunchers
    /\ backend \in [Launchers -> {"starting", "listening", "exited"}]
    /\ \A b \in Launchers :
          /\ sockFile = b => backend[b] \in {"listening", "exited"}
          /\ backend[b] = "listening" => sockFile = b
    /\ dbProcess = [l \in Launchers |-> l]
    /\ pidFile = [kind |-> "absent", pids |-> <<>>]
    /\ locPids = [l \in Launchers |-> <<>>]
    /\ worker = [l \in Launchers |-> "none"]
    /\ attempts = [l \in Launchers |-> 0]
    /\ confirmed = [l \in Launchers |-> FALSE]
    /\ exhausted = [l \in Launchers |-> FALSE]
    /\ startedHealthy = [l \in Launchers |-> FALSE]
    /\ schedule = "sequential"
    /\ NoFaults
    /\ NoGraph

\* const isReady = await waitForDbServer(client)
CallWait(l) ==
    /\ HarnessIdle
    /\ pc[l] = "ready"
    /\ ~confirmed[l] /\ ~exhausted[l]
    /\ pc' = [pc EXCEPT ![l] = "waitLoop"]
    /\ attempts' = [attempts EXCEPT ![l] = 0]
    /\ UNCHANGED <<locPids, dbProcess, backend, worker, sockFile, pidFile,
                   confirmed, exhausted, startedHealthy, schedule, faultVars,
                   graphVars>>

\* One turn of the loop: the test of the loop, one health check, and on an
\* unhealthy result the sleep and attempt++.  The function returns true
\* (confirmed) on a healthy check and false (exhausted) when the loop test
\* fails.
waitForDbServer(l) ==
    /\ pc[l] = "waitLoop"
    /\ IF ~waitLoopContinues(attempts[l])
       THEN /\ exhausted' = [exhausted EXCEPT ![l] = TRUE]
            /\ pc' = [pc EXCEPT ![l] = "ready"]
            /\ UNCHANGED <<attempts, confirmed>>
       ELSE IF Healthy
            THEN /\ confirmed' = [confirmed EXCEPT ![l] = TRUE]
                 /\ pc' = [pc EXCEPT ![l] = "ready"]
                 /\ UNCHANGED <<attempts, exhausted>>
            ELSE /\ attempts' = [attempts EXCEPT ![l] = @ + 1]
                 /\ UNCHANGED <<pc, confirmed, exhausted>>
    /\ UNCHANGED <<locPids, dbProcess, backend, worker, sockFile, pidFile,
                   startedHealthy, schedule, faultVars, graphVars>>

WaitNext ==
    \/ \E l \in Launchers : CallWait(l) \/ waitForDbServer(l)
    \/ \E b \in Launchers : BackendListen(b)

SpecWait == InitWait /\ [][WaitNext]_vars

----------------------------------------------------------------------------
\* Knowledge graph manager (src/unnamed/part_016, lines 18-524): its
\* methods called one at a time, each awaited, on a database that starts
\* empty

\* Longest array passed to a method.
MaxBatch == 2

Names == {"a", "b"}

EntityTypes == {"t"}

Contents == {"x", "y"}

RelationTypes == {"r"}

SeqsUpTo(S, n) == UNION {[1..k -> S] : k \in 0..n}

\* Values of the schema types Entity, Relation and Observation that the
\* methods are called with.
EntityArgs ==
    [name : Names, entityType : EntityTypes,
     observations : {<<>>, <<"x">>, <<"x", "x">>}]

RelationArgs == [from : Names, to : Names, relationType : RelationTypes]

ObservationArgs ==
    [entityName : Names,
     contents : {<<"x">>, <<"x", "y">>, <<"y", "y">>}]

\* Everything but the database and the call.
processVars == <<pc, locPids, dbProcess, backend, worker, sockFile, pidFile,
                 attempts, confirmed, exhausted, startedHealthy, schedule,
                 faultVars>>

\* The three tables as a connection sees them; ok turns FALSE when a
\* statement has thrown, after which no further statement of the try block
\* is run.
theDb ==
    [entities |-> entities, observations |-> observations,
     relations |-> relations, ok |-> TRUE]

\* SELECT name FROM entities
entityNamesOf(db) == {row.name : row \in db.entities}

\* The row of table relations for a Relation value.
relationRow(r) ==
    [from_entity |-> r.from, to_entity |-> r.to,
     relationType |-> r.relationType]

\* INSERT INTO entities (name, entityType): name is the primary key.
insertEntity(db, e) ==
    IF ~db.ok THEN db
    ELSE IF e.name \in entityNamesOf(db) THEN [db EXCEPT !.ok = FALSE]
    ELSE [db EXCEPT !.entities =
              @ \cup {[name |-> e.name, entityType |-> e.entityType]}]

\* INSERT INTO observations (entityName, content): the pair is the primary
\* key and entityName references entities(name).
insertObservation(db, entityName, content) ==
    LET row == [entityName |-> entityName, content |-> content] IN
    IF ~db.ok THEN db
    ELSE IF row \in db.observations \/ entityName \notin entityNamesOf(db)
         THEN [db EXCEPT !.ok = FALSE]
    ELSE [db EXCEPT !.observations = @ \cup {row}]

\* INSERT INTO relations (from_entity, to_entity, relationType): the triple
\* is the primary key and both entities reference entities(name).
insertRelation(db, r) ==
    IF ~db.ok THEN db
    ELSE IF \/ relationRow(r) \in db.relations
            \/ r.from \notin entityNamesOf(db)
            \/ r.to \notin entityNamesOf(db)
         THEN [db EXCEPT !.ok = FALSE]
    ELSE [db EXCEPT !.relations = @ \cup {relationRow(r)}]

\* for (const observation of entity.observations) INSERT ...
RECURSIVE insertObservations(_, _, _)
insertObservations(db, entityName, contents) ==
    IF contents = <<>> THEN db
    ELSE insertObservations(insertObservation(db, entityName, Head(contents)),
                            entityName, Tail(contents))

\* for (const entity of newEntities): the entity's row, then its
\* observations.
RECURSIVE insertEntities(_, _)
insertEntities(db, es) ==
    IF es = <<>> THEN db
    ELSE insertEntities(
             insertObservations(insertEntity(db, Head(es)), Head(es).name,
                                Head(es).observations),
             Tail(es))

\* for (const relation of newRelations) INSERT ...
RECURSIVE insertRelations(_, _)
insertRelations(db, rs) ==
    IF rs = <<>> THEN db
    ELSE insertRelations(insertRelation(db, Head(rs)), Tail(rs))

\* entities.filter((entity) => !existingNames.has(entity.name))
newEntities(es, existingNames) ==
    SelectSeq(es, LAMBDA e : e.name \notin existingNames)

\* relations.filter((relation) =>
\*   entityNames.has(relation.from) && entityNames.has(relation.to))
validRelations(rs, entityNames) ==
    SelectSeq(rs, LAMBDA r : r.from \in entityNames /\ r.to \in entityNames)

\* validRelations.filter((newRel) => !existingRelations.some(...same triple))
newRelations(valid, existingRelations) ==
    SelectSeq(valid, LAMBDA r : relationRow(r) \notin existingRelations)

\* observation.contents.filter((content) => !existingObservations.has(content))
newContents(contents, existingObservations) ==
    SelectSeq(contents, LAMBDA c : c \notin existingObservations)

\* The loop of addObservations over its argument: for an item whose entity
\* exists the contents not yet stored are inserted, and the item is
\* reported with these contents when there are any.
RECURSIVE addEach(_, _, _)
addEach(db, obs, added) ==
    IF obs = <<>> \/ ~db.ok THEN [db |-> db, added |-> added]
    ELSE LET o == Head(obs)
             existing == {row.content :
                            row \in {w \in db.observations :
                                       w.entityName = o.entityName}}
             fresh == newContents(o.contents, existing)
         IN IF o.entityName \in entityNamesOf(db)
            THEN addEach(insertObservations(db, o.entityName, fresh),
                         Tail(obs),
                         IF fresh # <<>>
                         THEN Append(added, [entityName |-> o.entityName,
                                             contents |-> fresh])
                         ELSE added)
            ELSE addEach(db, Tail(obs), added)

\* The end of a method that runs in a transaction: COMMIT and return the
\* value, or, when a statement has thrown, ROLLBACK and rethrow.
commitOrRollback(db, value) ==
    /\ entities' = IF db.ok THEN db.entities ELSE entities
    /\ observations' = IF db.ok THEN db.observations ELSE observations
    /\ relations' = IF db.ok THEN db.relations ELSE relations
    /\ returned' = IF db.ok THEN [status |-> "resolved", value |-> value]
                   ELSE [status |-> "rejected", value |-> <<>>]

NoCall == call.op = "none"

createEntities(es) ==
    /\ NoCall
    /\ call' = [op |-> "createEntities", arg |-> es]
    /\ LET created == newEntities(es, entityNamesOf(theDb)) IN
         commitOrRollback(insertEntities(theDb, created), created)
    /\ UNCHANGED processVars

createRelations(rs) ==
    /\ NoCall
    /\ call' = [op |-> "createRelations", arg |-> rs]
    /\ LET valid == validRelations(rs, entityNamesOf(theDb))
           created == newRelations(valid, relations)
       IN commitOrRollback(insertRelations(theDb, created), created)
    /\ UNCHANGED processVars

addObservations(obs) ==
    /\ NoCall
    /\ call' = [op |-> "addObservations", arg |-> obs]
    /\ LET r == addEach(theDb, obs, <<>>) IN commitOrRollback(r.db, r.added)
    /\ UNCHANGED processVars

\* Faulty WHERE clause: from_entity IN (...) only.
relationTouchesFrom(row, ns) == row.from_entity \in ns

\* WHERE from_entity IN (...) OR to_entity IN (...)
relationTouches(row, ns) == row.from_entity \in ns \/ row.to_entity \in ns

\* Faulty deleteEntities on tables without the foreign keys: the rows of
\* entities are deleted and nothing else.
deleteEntitiesOnly(entityNames) ==
    /\ NoCall
    /\ call' = [op |-> "deleteEntities", arg |-> entityNames]
    /\ entities' = {e \in entities : e.name \notin Range(entityNames)}
    /\ returned' = [status |-> "resolved", value |-> <<>>]
    /\ UNCHANGED <<observations, relations>>
    /\ UNCHANGED processVars

\* deleteEntities runs no transaction: three DELETE statements, each
\* committed by itself.  DELETE FROM entities throws when a row of
\* observations or relations still references a row it would delete.
deleteEntities(entityNames) ==
    /\ NoCall
    /\ call' = [op |-> "deleteEntities", arg |-> entityNames]
    /\ LET ns == Range(entityNames)
           obsLeft == {o \in observations : o.entityName \notin ns}
           relLeft == {r \in relations : ~relationTouches(r, ns)}
           referenced ==
               \/ \E o \in obsLeft : o.entityName \in ns
               \/ \E r \in relLeft : r.from_entity \in ns \/ r.to_entity \in ns
       IN /\ observations' = obsLeft
          /\ relations' = relLeft
          /\ entities' = IF referenced THEN entities
                         ELSE {e \in entities : e.name \notin ns}
          /\ returned' = IF referenced
                         THEN [status |-> "rejected", value |-> <<>>]
                         ELSE [status |-> "resolved", value |-> <<>>]
    /\ UNCHANGED processVars

\* DELETE FROM observations WHERE entityName = ? AND content = ?, for
\* every content of every item.
deleteObservations(deletions) ==
    /\ NoCall
    /\ call' = [op |-> "deleteObservations", arg |-> deletions]
    /\ observations' =
         {o \in observations :
            ~\E i \in 1..Len(deletions) :
                /\ deletions[i].entityName = o.entityName
                /\ Includes(deletions[i].contents, o.content)}
    /\ returned' = [status |-> "resolved", value |-> <<>>]
    /\ UNCHANGED <<entities, relations>>
    /\ UNCHANGED processVars

\* DELETE FROM relations WHERE from_entity = ? AND to_entity = ? AND
\* relationType = ?, for every relation of the argument.
deleteRelations(rs) ==
    /\ NoCall
    /\ call' = [op |-> "deleteRelations", arg |-> rs]
    /\ relations' = {r \in relations :
                       ~\E i \in 1..Len(rs) : relationRow(rs[i]) = r}
    /\ returned' = [status |-> "resolved", value |-> <<>>]
    /\ UNCHANGED <<entities, observations>>
    /\ UNCHANGED processVars

\* The caller has the outcome of its call; the next call may be made.
CallReturns ==
    /\ ~NoCall
    /\ call' = [op |-> "none", arg |-> <<>>]
    /\ returned' = [status |-> "idle", value |-> <<>>]
    /\ UNCHANGED <<entities, observations, relations>>
    /\ UNCHANGED processVars

GraphNext ==
    \/ \E es \in SeqsUpTo(EntityArgs, MaxBatch) : createEntities(es)
    \/ \E rs \in SeqsUpTo(RelationArgs, MaxBatch) : createRelations(rs)
    \/ \E obs \in SeqsUpTo(ObservationArgs, MaxBatch) : addObservations(obs)
    \/ \E ns \in SeqsUpTo(Names, MaxBatch) : deleteEntities(ns)
    \/ \E ds \in SeqsUpTo(ObservationArgs, MaxBatch) : deleteObservations(ds)
    \/ \E rs \in SeqsUpTo(RelationArgs, MaxBatch) : deleteRelations(rs)
    \/ CallReturns

\* The manager on an initially empty database, no launcher started.
SpecGraph == InitSeq /\ [][GraphNext]_vars

----------------------------------------------------------------------------
\* Vocabulary of the properties

\* Positions of a launcher whose addPid has completed and whose teardown
\* has not begun.
Registered == {"checkSock", "probe", "startFresh", "startStale", "waitUp",
               "spawnWorker", "running"}

\* Positions inside the teardown run by the worker's exit handler.
TearingDown == {"rmRead", "rmFilter", "rmWrite", "killDb"}

\* Launcher l takes a step of its teardown.
TeardownStep(l) == pc[l] \in TearingDown /\ pc'[l] # pc[l]

LiveBackends == {b \in Launchers : BackendAlive(b)}

\* C1: once all launchers have completed startup exactly one backend
\* process is alive, under every interleaving of the launchers.
C1_OneBackendAfterStartup ==
    (\A l \in Launchers : pc[l] = "running") => Cardinality(LiveBackends) = 1

\* C2: while another registered launcher is still running, no teardown
\* step of a terminating launcher removes the endpoint file or ends a
\* backend process.
C2_TeardownLeavesBackend ==
    [][\A l \in Launchers :
         (/\ TeardownStep(l)
          /\ \E m \in Launchers \ {l} :
                pc[m] = "running" /\ Includes(pidFile.pids, m))
         => /\ sockFile' = sockFile
            /\ \A b \in Launchers : BackendAlive(b) => BackendAlive(b)']_vars

\* C3: launchers started and terminated one after another: when the last
\* one has terminated the endpoint file is gone and the PID set is empty.
C3_LastExitCleansUp ==
    (/\ schedule = "sequential"
     /\ \A l \in Launchers : pc[l] \in {"idle", "done"}
     /\ \E l \in Launchers : pc[l] = "done")
    => sockFile = 0 /\ pidFile.pids = <<>>

\* C4: a launcher that spawned a backend has a worker only after a health
\* probe of that launch reported healthy.
C4_WorkerAfterHealthy ==
    \A l \in Launchers :
        (worker[l] \in {"running", "signalled"} /\ dbProcess[l] # 0)
        => confirmed[l]

\* C5: a launcher whose health wait was exhausted has killed the backend
\* and does not go on to spawn a worker or to reach the running state.
C5_ExhaustedIsFatal ==
    \A l \in Launchers :
        exhausted[l]
        => /\ pc[l] \notin {"spawnWorker", "running"}
           /\ worker[l] = "none"
           /\ ~BackendAlive(l)

\* C6 as stated: after the adds of all launchers have completed (and no
\* teardown has begun) the persisted list holds exactly the N ids, under
\* every interleaving.
C6_NoRegistrationLost ==
    (\A l \in Launchers : pc[l] \in Registered)
    => /\ Range(pidFile.pids) = Launchers
       /\ Len(pidFile.pids) = NumLaunchers

\* C6 amended: the same for launchers started one after another.
C6_SequentialAddsAllRegistered ==
    (schedule = "sequential" /\ \A l \in Launchers : pc[l] \in Registered)
    => /\ Range(pidFile.pids) = Launchers
       /\ Len(pidFile.pids) = NumLaunchers

C6_Witness ==
    /\ schedule = "sequential"
    /\ \A l \in Launchers : pc[l] = "running"
    /\ Len(pidFile.pids) = NumLaunchers

\* C7: with every launcher running and registered, the write that ends the
\* removePid of a terminating launcher leaves exactly the other ids.
C7_RemoveDropsOnlySelf ==
    [][\A l \in Launchers :
         (/\ pc[l] = "rmWrite" /\ pc'[l] # "rmWrite"
          /\ \A m \in Launchers \ {l} :
                pc[m] = "running" /\ Includes(pidFile.pids, m))
         => Range(pidFile'.pids) = Launchers \ {l}]_vars

\* C8: launches run one after another, nobody terminated: a launcher that
\* started while a backend was answering reaches the worker spawn without
\* a backend of its own, on a healthy answer to the first request, and the
\* PID set is exactly the launchers started so far.
C8_SecondLaunchReuses ==
    \A l \in Launchers :
        (/\ schedule = "sequential"
         /\ pc[l] = "spawnWorker"
         /\ startedHealthy[l]
         /\ \A m \in Launchers : pc[m] \in {"idle"} \cup Registered)
        => /\ dbProcess[l] = 0
           /\ backend[l] = "none"
           /\ confirmed[l]
           /\ attempts[l] = 0
           /\ Range(pidFile.pids) = {m \in Launchers : pc[m] \in Registered}
           /\ Len(pidFile.pids) = Cardinality({m \in Launchers : pc[m] \in Registered})

C8_Witness ==
    \E l \in Launchers :
        /\ schedule = "sequential"
        /\ pc[l] = "spawnWorker"
        /\ startedHealthy[l]
        /\ dbProcess[l] = 0
        /\ Len(pidFile.pids) = 2
        /\ Cardinality(LiveBackends) = 1

\* C9: the list removePid goes on to write is the list it read without the
\* caller's id and without the ids of processes that are not alive, and
\* with every id of a live process other than the caller.
C9_RemoveKeepsLive ==
    [][\A l \in Launchers :
         (pc[l] = "rmFilter" /\ pc'[l] = "rmWrite")
         => locPids'[l] =
              SelectSeq(locPids[l], LAMBDA q : q # l /\ q \in LivePids)]_vars

\* C10: an add of an id leaves the id in the list exactly once, and an add
\* of an id that is already in the list does not write the file.
C10_AddIdempotent ==
    [][\A l \in Launchers :
         (pc[l] = "addWrite" /\ pc'[l] # "addWrite")
         => /\ Count(pidFile'.pids, l) = 1
            /\ Includes(locPids[l], l) => pidFile' = pidFile]_vars

\* An add that has read a list of two ids with its own id among them.
C10_Witness ==
    \E l \in Launchers :
        /\ pc[l] = "addWrite"
        /\ Includes(locPids[l], l)
        /\ Len(locPids[l]) = 2
        /\ pidFile.pids = locPids[l]

\* C11: a removePid that finds the endpoint file present removes it if and
\* only if the list it goes on to write is empty, and that is if and only
\* if the list it read holds no id of a live process other than the caller.
C11_CleanupIffNoneLeft ==
    [][\A l \in Launchers :
         (pc[l] = "rmFilter" /\ pc'[l] = "rmWrite" /\ sockFile # 0)
         => /\ (sockFile' = 0) <=> (locPids'[l] = <<>>)
            /\ (sockFile' = 0) <=>
                 ~ \E q \in Range(locPids[l]) : q # l /\ q \in LivePids]_vars

\* C12: the read of a registry file with corrupt text does not raise and
\* returns the empty list: the addPid or removePid that made the read goes
\* on to its next statement with the empty list.
C12_CorruptReadIsEmpty ==
    [][\A l \in Launchers :
         (/\ pidFile.kind = "corrupt"
          /\ pc[l] \in {"addRead", "rmRead"} /\ pc'[l] # pc[l])
         => /\ pc'[l] = (IF pc[l] = "addRead" THEN "addWrite" ELSE "rmFilter")
            /\ locPids'[l] = <<>>]_vars

\* C13: on a registry file that is missing, blank, or not found by
\* readFile, addPid's read returns the empty list without raising, and the
\* add then writes the list holding the caller's id alone.
C13_NoFileIsEmptySet ==
    [][\A l \in Launchers :
         pidFile.kind \in {"absent", "blank", "enoent"}
         => /\ (pc[l] = "addRead" /\ pc'[l] # "addRead")
               => pc'[l] = "addWrite" /\ locPids'[l] = <<>>
            /\ (pc[l] = "addWrite" /\ pc'[l] # "addWrite")
               => pidFile' = [kind |-> "object", pids |-> <<l>>]]_vars

\* An add whose read found the file gone between existsSync and readFile.
C13_Witness ==
    \E l \in Launchers :
        /\ pc[l] = "addWrite"
        /\ pidFile.kind = "enoent"
        /\ locPids[l] = <<>>

\* C15: a launcher leaves the probe of an existing endpoint file for the
\* restart only when nobody answers on the endpoint and without a healthy
\* answer to any request of the launch; the restart deletes the
\* file and spawns a backend of the launcher's own, still without a healthy
\* answer in between; and the launch continues to the worker spawn, it
\* does not end as a failure.
C15_StaleEndpointReplaced ==
    [][\A l \in Launchers :
         /\ (pc[l] = "probe" /\ pc'[l] = "startStale")
            => ~ListenerAnswering /\ ~confirmed'[l]
         /\ (pc[l] = "startStale" /\ pc'[l] # "startStale")
            => /\ ~confirmed[l] /\ ~confirmed'[l]
               /\ sockFile' = 0
               /\ backend[l] # "starting" /\ backend'[l] = "starting"
               /\ dbProcess'[l] = l
               /\ pc'[l] = "waitUp"
         /\ (pc[l] = "waitUp" /\ pc'[l] # "waitUp")
            => pc'[l] = "spawnWorker"]_vars

\* Launches run one after another: the backend spawned in place of a dead
\* one, whose endpoint file was found, has bound the endpoint while its
\* launcher waits for it.
C15_Witness ==
    \E l \in Launchers :
        /\ schedule = "sequential"
        /\ pc[l] = "waitUp"
        /\ dbProcess[l] = l
        /\ sockFile = l
        /\ backend[l] = "listening"
        /\ \E b \in Launchers \ {l} : backend[b] = "exited"

\* C20: the read of a registry file in the legacy raw-array encoding
\* returns the ids of the array, as the read of the object encoding of the
\* same ids does, and every write leaves the file in the object encoding.
C20_LegacyArrayAccepted ==
    [][\A l \in Launchers :
         /\ (/\ pidFile.kind = "legacy"
             /\ pc[l] \in {"addRead", "rmRead"} /\ pc'[l] # pc[l])
            => /\ pc'[l] = (IF pc[l] = "addRead" THEN "addWrite" ELSE "rmFilter")
               /\ locPids'[l] = pidFile.pids
               /\ read(pidFile) = read([kind |-> "object", pids |-> pidFile.pids])
         /\ pidFile' # pidFile => pidFile'.kind = "object"]_vars

\* C19: a health check ends by resolving, never by raising, and it
\* resolves to healthy exactly when the request was answered with "ok": a
\* connection error, an undecodable response and a result other than "ok"
\* each resolve to unhealthy.
C19_HealthyIffOk ==
    [][\A l \in Launchers :
         (pc[l] = "probe" /\ pc'[l] # "probe")
         => /\ pc'[l] \in {"spawnWorker", "startStale"}
            /\ confirmed'[l] <=> (healthcheckResponse = "ok")
            /\ (pc'[l] = "spawnWorker") <=> (healthcheckResponse = "ok")]_vars

\* A check that was answered with a result other than "ok" has resolved to
\* unhealthy.
C19_Witness ==
    \E l \in Launchers :
        /\ pc[l] = "startStale"
        /\ ~confirmed[l]
        /\ healthcheckResponse = "ng"

\* Launcher l takes a step: of its main flow, of its exit handler, of its
\* "error" handler or of its signal handler.
StepOf(l) ==
    \/ pc'[l] # pc[l]
    \/ errPc'[l] # errPc[l]
    \/ worker'[l] # worker[l]
    \/ lateSignals'[l] # lateSignals[l]

\* C14: a launcher whose probe of the existing endpoint was answered
\* healthy holds no backend handle, and no step of any launcher (startup,
\* signal, worker exit, teardown, spawn "error" handling) ends a live
\* backend process other than the one that launcher spawned and holds.
C14_KillsOnlyOwnBackend ==
    [][\A l \in Launchers :
         /\ (pc[l] = "probe" /\ pc'[l] = "spawnWorker") => dbProcess'[l] = 0
         /\ dbProcess'[l] \in {0, l}
         /\ \A b \in Launchers :
              (StepOf(l) /\ BackendAlive(b) /\ ~BackendAlive(b)')
              => b = l /\ dbProcess[l] = l]_vars

\* A launcher that found a healthy backend is at the kill of its exit
\* handler, holding no handle, while that backend is alive.
C14_Witness ==
    \E l \in Launchers :
        /\ pc[l] = "killDb"
        /\ confirmed[l]
        /\ dbProcess[l] = 0
        /\ backend[l] = "none"
        /\ \E b \in Launchers \ {l} : BackendAlive(b)

\* C16: whatever the order of signals and of the worker's exit, the exit
\* handler (removePid, then the kill of the held backend) is started at
\* most once in a launcher, exactly once in a launcher that has ended
\* after its worker exited, and a signal that arrives after the worker was
\* told to stop changes nothing but the count of signals: it starts no
\* teardown and does not end the launcher.
C16_TeardownOnce ==
    [][\A l \in Launchers :
         /\ teardowns'[l] <= 1
         /\ (worker'[l] = "exited") <=> (teardowns'[l] = 1)
         /\ (lateSignals'[l] # lateSignals[l])
            => UNCHANGED <<pc, locPids, dbProcess, backend, worker, sockFile,
                           pidFile, errPc, errPids, teardowns>>]_vars

\* A launcher has ended through its exit handler, run once, after a signal
\* arrived that found the worker already told to stop or gone.
C16_Witness ==
    \E l \in Launchers :
        /\ pc[l] = "done"
        /\ worker[l] = "exited"
        /\ teardowns[l] = 1
        /\ lateSignals[l] >= 1

\* C18: launches run one after another.  The "error" handler of a failed
\* spawn, of the backend or of the worker, ends with the write of a list
\* without the launcher's id followed by the exit with code 1; a launcher
\* with a failed spawn ends in no other way, and the id of a launcher that
\* has exited with code 1 is not in the registry file.
C18_SpawnFailureDeregisters ==
    [][\A l \in Launchers :
         /\ (errPc[l] = "rmWrite" /\ errPc'[l] # "rmWrite")
            => pc'[l] = "failed" /\ ~Includes(pidFile'.pids, l)
         /\ ((backend'[l] = "spawnError" \/ worker'[l] = "spawnError")
             /\ pc'[l] \in DeadPcs)
            => pc'[l] = "failed"
         /\ pc'[l] = "failed" => ~Includes(pidFile'.pids, l)]_vars

\* Launchers that have exited with code 1, one after a failed backend
\* spawn and one after a failed worker spawn.
C18_Witness ==
    \E l, m \in Launchers :
        /\ pc[l] = "failed" /\ backend[l] = "spawnError"
        /\ pc[m] = "failed" /\ worker[m] = "spawnError"
        /\ ~Includes(pidFile.pids, l)
        /\ ~Includes(pidFile.pids, m)

\* C17: launches run one after another.  Once a running launcher has
\* received a signal and told its worker to stop, eventually the worker
\* has exited, the launcher's id is not in the registry file and the
\* launcher process has exited.
C17_SignalLeadsToExit ==
    \A l \in Launchers :
        (pc[l] = "running" /\ worker[l] = "signalled")
        ~> (/\ worker[l] = "exited"
            /\ ~Includes(pidFile.pids, l)
            /\ pc[l] = "done")

\* A running, registered launcher has received a signal.
C17_Witness ==
    \E l \in Launchers :
        /\ pc[l] = "running"
        /\ worker[l] = "signalled"
        /\ Includes(pidFile.pids, l)

\* C21: a read of the registry file that fails with an I/O error other
\* than file-not-found is absorbed: the addPid or removePid that made the
\* read goes on to its next statement with the empty list.
C21_ReadErrorsAbsorbed ==
    [][\A l \in Launchers :
         (/\ pidFile.kind = "ioerror"
          /\ pc[l] \in {"addRead", "rmRead"} /\ pc'[l] # pc[l])
         => /\ pc'[l] = (IF pc[l] = "addRead" THEN "addWrite" ELSE "rmFilter")
            /\ locPids'[l] = <<>>]_vars

\* C22: no id of a process that is gone survives the filters of a
\* removePid; when no process other than the caller is alive among the
\* stored ids the filtered list is empty and the endpoint file is removed,
\* however many ids of dead processes were stored; and the filtered list is
\* what removePid writes.
C22_DeadIdsDoNotBlock ==
    [][\A l \in Launchers :
         /\ (pc[l] = "rmFilter" /\ pc'[l] = "rmWrite")
            => /\ \A q \in Range(locPids'[l]) : q \in LivePids
               /\ (\A q \in Range(locPids[l]) \ {l} : q \notin LivePids)
                  => locPids'[l] = <<>> /\ sockFile' = 0
         /\ (pc[l] = "rmWrite" /\ pc'[l] # "rmWrite")
            => pidFile' = [kind |-> "object", pids |-> locPids[l]]]_vars

\* A live process is about to write the empty list after a removePid on a
\* file that holds the id of a crashed process, the endpoint file removed.
C22_Witness ==
    \E l \in Launchers :
        /\ pc[l] = "rmWrite"
        /\ locPids[l] = <<>>
        /\ \E q \in Range(pidFile.pids) : q # l /\ pc[q] = "crashed"
        /\ \A q \in Range(pidFile.pids) \ {l} : pc[q] = "crashed"
        /\ backend[1] = "exited"
        /\ sockFile = 0

\* C23: the backend of a launcher is spawned from the launcher's start()
\* only, and only when the launcher has spawned none before: not a second
\* time during startup, and not after the backend it spawned has crashed
\* or was killed.
C23_OneBackendSpawn ==
    [][\A l \in Launchers :
         /\ (backend'[l] \in {"starting", "spawnError"} /\ backend'[l] # backend[l])
            => backend[l] = "none" /\ pc[l] \in {"startFresh", "startStale"}
         /\ backend[l] = "exited" => backend'[l] = "exited"]_vars

\* A launcher runs with its worker after the backend it spawned, and
\* found healthy, has crashed behind its endpoint file.
C23_Witness ==
    \E l \in Launchers :
        /\ pc[l] = "running"
        /\ worker[l] = "running"
        /\ confirmed[l]
        /\ dbProcess[l] = l
        /\ backend[l] = "exited"
        /\ sockFile = l

\* Positions of the launcher main after the test for the endpoint file.
AfterCheckSock == {"probe", "startFresh", "startStale", "waitUp",
                   "spawnWorker", "running"}

\* C24: a launcher comes to the test for the endpoint file only by the
\* step that completes its addPid, with its id in the registry file; it
\* comes to a probe, a backend spawn or the worker spawn only from that
\* test on; and before that it has issued no probe and spawned nothing.
C24_RegisteredBeforeBackend ==
    [][\A l \in Launchers :
         /\ (pc'[l] = "checkSock" /\ pc[l] # "checkSock")
            => pc[l] = "addWrite" /\ Includes(pidFile'.pids, l)
         /\ (pc'[l] \in AfterCheckSock /\ pc[l] # pc'[l])
            => pc[l] \in {"checkSock"} \cup AfterCheckSock
         /\ pc[l] \in {"idle", "addRead", "addWrite"}
            => /\ backend[l] = "none" /\ worker[l] = "none"
               /\ dbProcess[l] = 0 /\ ~confirmed[l] /\ attempts[l] = 0]_vars

\* A registered launcher is about to test for the endpoint file, having
\* spawned nothing.
C24_Witness ==
    \E l \in Launchers :
        /\ pc[l] = "checkSock"
        /\ Includes(pidFile.pids, l)
        /\ backend[l] = "none"
        /\ worker[l] = "none"

\* C25: a launcher goes on to its worker without a backend handle only
\* from the probe, by a step in which the request was answered "ok"; a
\* launcher that holds no handle at or after the worker spawn has had a
\* healthy answer in this launch; and the test for the endpoint file leads
\* to the probe or to start(), never past them.
C25_ReuseOnlyAfterHealthy ==
    [][\A l \in Launchers :
         /\ (pc'[l] = "spawnWorker" /\ pc[l] # "spawnWorker" /\ dbProcess'[l] = 0)
            => pc[l] = "probe" /\ healthcheckResponse = "ok"
         /\ (pc[l] \in {"spawnWorker", "running"} /\ dbProcess[l] = 0)
            => confirmed[l]
         /\ (pc[l] = "checkSock" /\ pc'[l] # "checkSock")
            => pc'[l] \in {"probe", "startFresh"}]_vars

\* A launcher is about to spawn its worker with no backend handle, after a
\* healthy answer from the backend another launcher spawned.
C25_Witness ==
    \E l \in Launchers :
        /\ pc[l] = "spawnWorker"
        /\ dbProcess[l] = 0
        /\ backend[l] = "none"
        /\ confirmed[l]
        /\ ListenerAnswering

C27_WaitBounded ==
    [][\A l \in Launchers :
         /\ attempts'[l] <= MaxAttempts
         /\ (attempts'[l] # attempts[l] /\ pc[l] = "waitLoop")
            => ~Healthy /\ attempts[l] < MaxAttempts
         /\ (pc[l] = "waitLoop" /\ Healthy /\ attempts[l] < MaxAttempts /\ pc'[l] # pc[l])
            => confirmed'[l] /\ ~exhausted'[l] /\ pc'[l] = "ready"
         /\ (pc[l] = "waitLoop" /\ pc'[l] = "ready")
            => /\ confirmed'[l] # exhausted'[l]
               /\ exhausted'[l] => attempts[l] = MaxAttempts
               /\ confirmed'[l] => Healthy /\ attempts'[l] = attempts[l]
         /\ (confirmed[l] \/ exhausted[l]) => attempts'[l] = attempts[l]]_vars

\* One wait has returned success after some unhealthy checks and another
\* has returned exhausted.
C27_Witness ==
    \E l, m \in Launchers :
        /\ pc[l] = "ready" /\ confirmed[l] /\ attempts[l] > 0
        /\ pc[m] = "ready" /\ exhausted[m] /\ attempts[m] = MaxAttempts

\* C28: a health check of an endpoint nobody listens on resolves to
\* unhealthy by its first request: the request that fails to connect is
\* not followed by another one.
C28_NoListenerFailsFast ==
    [][\A l \in Launchers :
         (pc[l] = "probe" /\ healthcheckResponse = "error"
          /\ (pc'[l] # pc[l] \/ attempts'[l] # attempts[l]))
         => /\ pc'[l] = "startStale"
            /\ ~confirmed'[l]
            /\ attempts'[l] = 0]_vars

\* C29: from an absent or empty registry file, under every interleaving of
\* the reads and writes of addPid and removePid calls made by processes
\* with distinct ids, no id is twice in the list the file holds.
C29_NoDuplicateIds ==
    \A q \in Launchers : Count(pidFile.pids, q) <= 1

\* Calls have interleaved: the file holds every id, and a process that
\* read a list without its id is about to write while the file holds it.
C29_Witness ==
    \E l \in Launchers :
        /\ schedule = "concurrent"
        /\ pc[l] = "addWrite"
        /\ ~Includes(locPids[l], l)
        /\ Includes(pidFile.pids, l)
        /\ Len(pidFile.pids) = NumLaunchers

\* C30: a launcher that has come through startDBServer spawns its worker
\* by its next step, with or without a backend handle; a worker is spawned
\* only there and only by a launcher that has spawned none, so a launcher
\* has one worker at most; a launcher past the spawn has a worker; and a
\* step touches the worker of one launcher only.
C30_OneWorkerEach ==
    [][\A l \in Launchers :
         /\ (pc[l] = "spawnWorker" /\ pc'[l] # "spawnWorker")
            => worker[l] = "none" /\ worker'[l] = "running" /\ pc'[l] = "running"
         /\ (worker'[l] # "none" /\ worker[l] = "none") => pc[l] = "spawnWorker"
         /\ worker[l] # "none"
            => worker'[l] # "none" /\ (worker'[l] = "running" => worker[l] = "running")
         /\ pc[l] = "running" => worker[l] # "none"
         /\ \A m \in Launchers \ {l} :
              worker'[l] # worker[l] => worker'[m] = worker[m]]_vars

\* Every launcher runs with a worker of its own: one launcher holds the
\* backend it spawned, the others hold none.
C30_Witness ==
    /\ \A l \in Launchers : pc[l] = "running" /\ worker[l] = "running"
    /\ \E l \in Launchers :
         /\ dbProcess[l] = l
         /\ \A m \in Launchers \ {l} : dbProcess[m] = 0 /\ confirmed[m]

\* Launcher l has completed addPid and its process has not ended.
HasRegistered(l) ==
    \/ pc[l] \in Registered \cup {"drained"}
    \/ pc[l] \in TearingDown /\ worker[l] # "none"

\* C31: launches run one after another.  Whenever the process of a
\* launcher that has registered its id ends without having been killed
\* uncatchably, after its worker's exit, a SIGINT or SIGTERM, a failed
\* spawn or an exception during startup, its id is not in the registry
\* file at that moment.
C31_ExitedHasDeregistered ==
    [][\A l \in Launchers :
         (HasRegistered(l) /\ pc'[l] \in {"done", "failed", "crashed"})
         => ~Includes(pidFile'.pids, l)]_vars

\* C32: launches run one after another.  When the exit handler of a
\* launcher ends after a removePid that found no other process alive, left
\* the registry empty and removed the endpoint file, no backend process
\* is alive any more, whichever launcher had spawned it.
C32_EmptySetLeavesNoBackend ==
    [][\A l \in Launchers :
         (/\ pc[l] = "killDb"
          /\ pc'[l] \in {"done", "drained"}
          /\ LivePids \subseteq {l}
          /\ pidFile.kind = "object" /\ pidFile.pids = <<>>
          /\ sockFile = 0)
         => LiveBackends' = {}]_vars

\* C33: under every interleaving of the launchers, no step of a launcher
\* removes the endpoint file while the backend that bound it is alive and
\* listening on it, neither deleteSocketFile before a spawn nor
\* deleteSocketFile as onNoActivePids.  The one removal left aside is that
\* by the exit handler of the backend's own launcher, which kills the
\* backend right after.
C33_LiveEndpointNotDeleted ==
    [][(sockFile # 0 /\ sockFile' = 0 /\ backend[sockFile] = "listening")
       => /\ pc[sockFile] = "rmFilter" /\ pc'[sockFile] = "rmWrite"
          /\ dbProcess[sockFile] = sockFile]_vars

\* The rows createEntities is to store for the entities of a list: one
\* row of entities per name, one row of observations per content.
entityRows(es) ==
    {[name |-> es[i].name, entityType |-> es[i].entityType] :
       i \in 1..Len(es)}

observationRows(es) ==
    UNION {{[entityName |-> es[i].name, content |-> es[i].observations[j]] :
              j \in 1..Len(es[i].observations)} : i \in 1..Len(es)}

\* No entity of the list has the same observation twice.
PlainObservations(es) ==
    \A i \in 1..Len(es) :
        \A j, k \in 1..Len(es[i].observations) :
            es[i].observations[j] = es[i].observations[k] => j = k

\* C34: createEntities(es), called with entities none of which repeats an
\* observation, resolves to exactly the entities of es, in their order,
\* whose name is not stored yet, and stores exactly these with their
\* observations; the rows of the entities that existed, their observations
\* and the relations are as before.
C34_CreateEntitiesInsertsNew ==
    [][(NoCall /\ call'.op = "createEntities" /\ PlainObservations(call'.arg))
       => LET fresh == SelectSeq(call'.arg,
                         LAMBDA e : e.name \notin entityNamesOf(theDb))
          IN /\ returned' = [status |-> "resolved", value |-> fresh]
             /\ entities' = entities \cup entityRows(fresh)
             /\ observations' = observations \cup observationRows(fresh)
             /\ relations' = relations]_vars

\* C35: createRelations(rs) resolves to exactly the relations of rs, in
\* their order, whose from and to entities both exist and whose triple is
\* not stored yet, and stores exactly these; entities and observations are
\* as before.
C35_CreateRelationsInsertsValidNew ==
    [][(NoCall /\ call'.op = "createRelations")
       => LET fresh == SelectSeq(call'.arg,
                         LAMBDA r : /\ r.from \in entityNamesOf(theDb)
                                    /\ r.to \in entityNamesOf(theDb)
                                    /\ relationRow(r) \notin relations)
          IN /\ returned' = [status |-> "resolved", value |-> fresh]
             /\ relations' = relations \cup {relationRow(fresh[i]) :
                                               i \in 1..Len(fresh)}
             /\ entities' = entities
             /\ observations' = observations]_vars

\* C36: deleteEntities(names) resolves, whether or not the names exist.
\* Afterwards the entities named are gone with all their observations and
\* with every relation that has one of them as from or to; every other
\* entity, observation and relation is stored as before.
C36_DeleteEntitiesCascades ==
    [][(NoCall /\ call'.op = "deleteEntities")
       => LET ns == Range(call'.arg) IN
            /\ returned'.status = "resolved"
            /\ entities' = {e \in entities : e.name \notin ns}
            /\ observations' = {o \in observations : o.entityName \notin ns}
            /\ relations' = {r \in relations : /\ r.from_entity \notin ns
                                               /\ r.to_entity \notin ns}]_vars

\* deleteEntities has resolved for one name; nothing of that name is
\* left, and the other entity is there with an observation and a relation.
C36_Witness ==
    /\ call.op = "deleteEntities"
    /\ returned.status = "resolved"
    /\ \E n \in Names :
         /\ Range(call.arg) = {n}
         /\ n \notin entityNamesOf(theDb)
         /\ \A o \in observations : o.entityName # n
         /\ \A r \in relations : r.from_entity # n /\ r.to_entity # n
    /\ entities # {} /\ observations # {} /\ relations # {}

\* C37: after any sequence of createEntities, createRelations,
\* addObservations, deleteEntities, deleteObservations and deleteRelations
\* on a database that was empty, both entities of every stored relation
\* and the entity of every stored observation are stored.
C37_NoDanglingRows ==
    /\ \A r \in relations :
         r.from_entity \in entityNamesOf(theDb) /\ r.to_entity \in entityNamesOf(theDb)
    /\ \A o \in observations : o.entityName \in entityNamesOf(theDb)

\* An entity has just been deleted while a relation and an observation of
\* the other entity are stored.
C37_Witness ==
    /\ call.op = "deleteEntities"
    /\ call.arg # <<>>
    /\ Cardinality(entities) = 1
    /\ relations # {}
    /\ observations # {}

====
